---------------------------- MODULE Spec2Model ----------------------------
(***************************************************************************)
(* puretulip/es-schema: an Elasticsearch index mapping is translated into  *)
(* an Arrow schema (parseProperties / esTypeToArrowType), the schema is    *)
(* widened against a document batch (adjustSchemaForLists / adjustField),  *)
(* and the batch is appended into Arrow column builders                    *)
(* (createArrowRecord / appendValue).  Source: src/main.go.                *)
(*                                                                         *)
(* The Arrow library (github.com/apache/arrow/go/v10) is not part of the   *)
(* repository; the few library calls the program makes are modelled by     *)
(* what v10 does (FixedSizeListOf, NewBuilder, AppendNull, Append).        *)
(***************************************************************************)
EXTENDS Integers, Sequences, FiniteSets, TLC

VARIABLES
    mapping,     \* esMapping["properties"]: field name -> mapping node
    data,        \* the document batch, []map[string]interface{}
    pc,          \* position in main: "parse", "schema", "append", "done",
                 \* or where it panicked: "parsePanic", "recordPanic"
    schema,      \* the current *arrow.Schema (sequence of arrow.Field)
    prevSchema,  \* the schema handed to the last adjustSchemaForLists call
    adjusts,     \* number of adjustSchemaForLists calls made so far
    builders,    \* createArrowRecord's builders, one per schema field
    di,          \* createArrowRecord: index of the document being appended
    fi,          \* createArrowRecord: index of the field being appended
    lastAppend   \* the last top-level appendValue call: the column fi, the
                 \* value and the builder before the call (fi = 0: none yet)

vars == <<mapping, data, pc, schema, prevSchema, adjusts, builders, di, fi,
          lastAppend>>

---------------------------------------------------------------------------
(* Bounds of the model.                                                    *)

MaxDocs == 2
MaxAdjust == 2
MaxListLen == 2
MaxDepth == 2

---------------------------------------------------------------------------
(* Go numbers.                                                             *)
(*                                                                         *)
(* int32 is an Int in -2^31 .. 2^31-1.  A 64-bit integer x (int64, and int *)
(* on the 64-bit builds the program targets) is the pair hi, lo with       *)
(* x = hi * 2^32 + lo and lo in the int32 range, so that the conversion    *)
(* int32(x) keeps lo and drops hi, as two's complement truncation does.    *)
(*                                                                         *)
(* A float is sign, whole part w, quarter q (value w + q/4) and, for a     *)
(* float64 only, the flag fine: the value carries mantissa bits a float32  *)
(* cannot hold.  float32(x) rounds them away; int32(x), int64(x) truncate  *)
(* toward zero.  Only floats within the int32 range are drawn.             *)

I64(h, l) == [hi |-> h, lo |-> l]
F32(neg, w, q) == [neg |-> neg, w |-> w, q |-> q]
F64(neg, w, q, fine) == [neg |-> neg, w |-> w, q |-> q, fine |-> fine]

Int64ToInt32(x) == x.lo
Int32ToInt64(n) == I64(IF n < 0 THEN -1 ELSE 0, n)
Float64Trunc(x) == IF x.neg THEN 0 - x.w ELSE x.w
Float64ToInt32(x) == Float64Trunc(x)
Float64ToInt64(x) == Int32ToInt64(Float64Trunc(x))
Float64ToFloat32(x) == F32(x.neg, x.w, x.q)
Float32ToFloat64(x) == F64(x.neg, x.w, x.q, FALSE)

---------------------------------------------------------------------------
(* Go values held in an interface{}: k is the dynamic type.                *)

Nil == [k |-> "nil"]
VString(s) == [k |-> "string", s |-> s]
VInt(x) == [k |-> "int", n64 |-> x]
VInt32(n) == [k |-> "int32", n32 |-> n]
VInt64(x) == [k |-> "int64", n64 |-> x]
VFloat32(x) == [k |-> "float32", f32 |-> x]
VFloat64(x) == [k |-> "float64", f64 |-> x]
VBool(b) == [k |-> "bool", b |-> b]
VTime(ns) == [k |-> "time.Time", ns |-> ns]
VMap(m) == [k |-> "map[string]interface{}", m |-> m]
VSlice(kind, items) == [k |-> kind, items |-> items]
\* any other dynamic type (map[string]string, []bool, a struct, ...)
VOther == [k |-> "other"]

\* Cells of a timestamp column: arrow.Timestamp(UnixNano()).
VTimestamp(ns) == [k |-> "timestamp", ns |-> ns]

\* doc[field.Name] / v[f.Name]: indexing a Go map gives nil for a missing key.
Lookup(m, name) == IF name \in DOMAIN m THEN m[name] ELSE Nil

\* time.Parse(time.RFC3339, v): the layouts drawn and their UnixNano.
RFC3339Ok(s) == s = "1970-01-01T00:00:01Z"
RFC3339Nanos(s) == 1000000000

---------------------------------------------------------------------------
(* arrow.DataType and arrow.Field.                                         *)

String == [id |-> "STRING"]
Int32 == [id |-> "INT32"]
Int64 == [id |-> "INT64"]
Float32 == [id |-> "FLOAT32"]
Float64 == [id |-> "FLOAT64"]
Boolean == [id |-> "BOOL"]
Timestamp_ns == [id |-> "TIMESTAMP"]
ListOf(t) == [id |-> "LIST", elem |-> t]
StructOf(fs) == [id |-> "STRUCT", fields |-> fs]
Field(name, type, nullable) == [name |-> name, type |-> type, nullable |-> nullable]

\* Outcome of a call that may panic.
OkType(t) == [panic |-> FALSE, type |-> t]
PanicType == [panic |-> TRUE]
OkFields(fs) == [panic |-> FALSE, fields |-> fs]
PanicFields == [panic |-> TRUE]

\* arrow.FixedSizeListOf(n, t) of arrow/go/v10: "panics if n is <= 0".
FixedSizeListOf(n, t) ==
    IF n <= 0 THEN PanicType
    ELSE OkType([id |-> "FIXED_SIZE_LIST", n |-> n, elem |-> t])

---------------------------------------------------------------------------
(* The mapping tree, as encoding/json decodes it: a node is the map        *)
(* fieldProps with its keys "type", "dims" and "properties", each a JSON   *)
(* value: absent, a string, a number (float64) or an object.               *)

JAbsent == [j |-> "absent"]
JString(s) == [j |-> "string", s |-> s]
JNumber(x) == [j |-> "number", f64 |-> x]
JObject(m) == [j |-> "object", m |-> m]
Node(type, dims, properties) == [type |-> type, dims |-> dims, properties |-> properties]

\* The orders in which a Go range statement may visit the keys of a map.
Orderings(S) ==
    {s \in [1..Cardinality(S) -> S] :
        \A i, j \in 1..Cardinality(S) : i # j => s[i] # s[j]}

RECURSIVE parseProperties(_), esTypeToArrowType(_, _)

\* The set of results the call may have (the nested fields' order varies).
esTypeToArrowType(esType, fieldProps) ==
    CASE esType \in {"text", "keyword"} -> {OkType(String)}
      [] esType = "integer" -> {OkType(Int32)}
      [] esType = "long" -> {OkType(Int64)}
      [] esType = "float" -> {OkType(Float32)}
      [] esType = "double" -> {OkType(Float64)}
      [] esType = "boolean" -> {OkType(Boolean)}
      [] esType = "date" -> {OkType(Timestamp_ns)}
      [] esType = "dense_vector" ->
            IF fieldProps.dims.j = "number"
            THEN {FixedSizeListOf(Float64ToInt32(fieldProps.dims.f64), Float32)}
            ELSE {FixedSizeListOf(0, Float32)}
      [] esType \in {"nested", "object"} ->
            IF fieldProps.properties.j = "object"
            THEN {IF r.panic THEN PanicType ELSE OkType(StructOf(r.fields)) :
                     r \in parseProperties(fieldProps.properties.m)}
            ELSE {OkType(StructOf(<<>>))}
      [] OTHER -> {OkType(String)}

\* The set of results the call may have: one per iteration order of the map
\* (and of the nested maps); a panic in any entry ends the call.
parseProperties(properties) ==
    LET keys == DOMAIN properties
        fieldType(n) == IF properties[n].type.j = "string"
                        THEN properties[n].type.s ELSE "object"
        arrowType(n) == esTypeToArrowType(fieldType(n), properties[n])
    IN  IF \E n \in keys : \E r \in arrowType(n) : r.panic
        THEN {PanicFields}
        ELSE {OkFields([i \in 1..Len(ord) |->
                          Field(ord[i], ch[ord[i]].type, FALSE)]) :
                 ord \in Orderings(keys),
                 ch \in {c \in [keys -> UNION {arrowType(n) : n \in keys}] :
                            \A n \in keys : c[n] \in arrowType(n)}}

---------------------------------------------------------------------------
(* The Schema Reconciler.                                                  *)

ListKinds == {"[]interface{}", "[]string", "[]float32", "[]float64",
              "[]int", "[]int32", "[]int64"}

\* A variant of elementTypeOf whose default case falls back to String.
elementTypeOfDefaultString(type) ==
    CASE type.id = "STRING" -> String
      [] type.id = "FLOAT32" -> Float32
      [] type.id = "FLOAT64" -> Float64
      [] type.id = "INT32" -> Int32
      [] type.id = "INT64" -> Int64
      [] OTHER -> String

\* The inner type switch of adjustField: the element type of the new list.
elementTypeOf(type) ==
    CASE type.id = "STRING" -> String
      [] type.id = "FLOAT32" -> Float32
      [] type.id = "FLOAT64" -> Float64
      [] type.id = "INT32" -> Int32
      [] type.id = "INT64" -> Int64
      [] OTHER -> type

RECURSIVE adjustField(_, _)
adjustField(field, value) ==
    IF value.k = "nil" THEN field
    ELSE IF value.k \in ListKinds
    THEN Field(field.name, ListOf(elementTypeOf(field.type)), TRUE)
    ELSE IF value.k = "map[string]interface{}" /\ field.type.id = "STRUCT"
    THEN Field(field.name,
               StructOf([j \in 1..Len(field.type.fields) |->
                   adjustField(field.type.fields[j],
                               Lookup(value.m, field.type.fields[j].name))]),
               TRUE)
    ELSE field

\* A variant of adjustTopValue that rebuilds a struct from only the children
\* the document's map holds.
adjustTopValuePresentOnly(field, value) ==
    IF value.k = "map[string]interface{}" /\ field.type.id = "STRUCT"
    THEN LET present == SelectSeq(field.type.fields,
                                  LAMBDA f : f.name \in DOMAIN value.m)
         IN  Field(field.name,
                   StructOf([j \in 1..Len(present) |->
                       adjustField(present[j], Lookup(value.m, present[j].name))]),
                   TRUE)
    ELSE adjustField(field, value)

\* The body of the inner loop for a document that holds the field.
adjustTopValue(field, value) ==
    IF value.k = "map[string]interface{}" /\ field.type.id = "STRUCT"
    THEN Field(field.name,
               StructOf([j \in 1..Len(field.type.fields) |->
                   adjustField(field.type.fields[j],
                               Lookup(value.m, field.type.fields[j].name))]),
               TRUE)
    ELSE adjustField(field, value)

RECURSIVE adjustTopField(_, _, _)

\* A variant of adjustTopField that passes over a document whose value for
\* the field is nil and lets a later document decide.
adjustTopFieldSkipNil(field, docs, d) ==
    IF d > Len(docs) THEN field
    ELSE IF field.name \in DOMAIN docs[d] /\ docs[d][field.name].k # "nil"
    THEN adjustTopValue(field, docs[d][field.name])
    ELSE adjustTopField(field, docs, d + 1)

\* The inner loop over data, from document d: the first document that holds
\* the field decides, and the loop breaks.
adjustTopField(field, docs, d) ==
    IF d > Len(docs) THEN field
    ELSE IF field.name \in DOMAIN docs[d]
    THEN adjustTopValue(field, docs[d][field.name])
    ELSE adjustTopField(field, docs, d + 1)

adjustSchemaForLists(sch, docs) ==
    [i \in 1..Len(sch) |-> adjustTopField(sch[i], docs, 1)]

---------------------------------------------------------------------------
(* Arrow column builders (array.Builder of arrow/go/v10).                  *)
(*                                                                         *)
(* A scalar builder holds its cells (Nil for a null cell).  A struct       *)
(* builder holds a validity bit per row and one child builder per field; a *)
(* list builder a validity bit and a start offset per row and the shared   *)
(* element builder; a fixed-size-list builder a validity bit per row and   *)
(* the element builder.                                                    *)

ScalarIds == {"STRING", "INT32", "INT64", "FLOAT32", "FLOAT64", "BOOL", "TIMESTAMP"}

RECURSIVE NewBuilder(_)
NewBuilder(type) ==
    CASE type.id = "STRUCT" ->
            [kind |-> "STRUCT",
             names |-> [j \in 1..Len(type.fields) |-> type.fields[j].name],
             valid |-> <<>>,
             fields |-> [j \in 1..Len(type.fields) |-> NewBuilder(type.fields[j].type)]]
      [] type.id = "LIST" ->
            [kind |-> "LIST", valid |-> <<>>, offsets |-> <<>>,
             values |-> NewBuilder(type.elem)]
      [] type.id = "FIXED_SIZE_LIST" ->
            [kind |-> "FIXED_SIZE_LIST", n |-> type.n, valid |-> <<>>,
             values |-> NewBuilder(type.elem)]
      [] OTHER -> [kind |-> type.id, cells |-> <<>>]

\* Builder.Len(): the number of rows appended.
BuilderLen(b) == IF b.kind \in ScalarIds THEN Len(b.cells) ELSE Len(b.valid)

\* Append(v) of a scalar builder.
AppendCell(b, cell) == [b EXCEPT !.cells = Append(@, cell)]

\* ListBuilder.Append(v) / AppendNull(): the validity bit and the next offset.
ListAppend(b, v) ==
    [b EXCEPT !.valid = Append(@, v),
              !.offsets = Append(@, BuilderLen(b.values))]

\* FixedSizeListBuilder.Append(v) / AppendNull(): the validity bit only.
FixedSizeListAppend(b, v) == [b EXCEPT !.valid = Append(@, v)]

\* A variant of AppendNull that marks a struct row null and leaves the child
\* builders as they are.
AppendNullShallow(b) ==
    CASE b.kind = "STRUCT" -> [b EXCEPT !.valid = Append(@, FALSE)]
      [] b.kind = "LIST" -> ListAppend(b, FALSE)
      [] b.kind = "FIXED_SIZE_LIST" -> FixedSizeListAppend(b, FALSE)
      [] OTHER -> AppendCell(b, Nil)

\* Builder.AppendNull().  StructBuilder.AppendNull is Append(false), which
\* appends a null to every child builder as well.
RECURSIVE AppendNull(_)
AppendNull(b) ==
    CASE b.kind = "STRUCT" ->
            [b EXCEPT !.valid = Append(@, FALSE),
                      !.fields = [j \in 1..Len(b.fields) |-> AppendNull(b.fields[j])]]
      [] b.kind = "LIST" -> ListAppend(b, FALSE)
      [] b.kind = "FIXED_SIZE_LIST" -> FixedSizeListAppend(b, FALSE)
      [] OTHER -> AppendCell(b, Nil)

---------------------------------------------------------------------------
(* The Column Materializer.                                                *)

\* case *array.Int32Builder
appendInt32(builder, value) ==
    CASE value.k = "int32" -> AppendCell(builder, VInt32(value.n32))
      [] value.k = "int" -> AppendCell(builder, VInt32(Int64ToInt32(value.n64)))
      [] value.k = "float64" -> AppendCell(builder, VInt32(Float64ToInt32(value.f64)))
      [] OTHER -> AppendNull(builder)

\* A variant of appendInt64 that also takes an int32 value, widened.
appendInt64Widening(builder, value) ==
    CASE value.k = "int64" -> AppendCell(builder, VInt64(value.n64))
      [] value.k = "int" -> AppendCell(builder, VInt64(value.n64))
      [] value.k = "int32" -> AppendCell(builder, VInt64(Int32ToInt64(value.n32)))
      [] value.k = "float64" -> AppendCell(builder, VInt64(Float64ToInt64(value.f64)))
      [] OTHER -> AppendNull(builder)

\* case *array.Int64Builder
appendInt64(builder, value) ==
    CASE value.k = "int64" -> AppendCell(builder, VInt64(value.n64))
      [] value.k = "int" -> AppendCell(builder, VInt64(value.n64))
      [] value.k = "float64" -> AppendCell(builder, VInt64(Float64ToInt64(value.f64)))
      [] OTHER -> AppendNull(builder)

\* case *array.Float32Builder
appendFloat32(builder, value) ==
    CASE value.k = "float32" -> AppendCell(builder, VFloat32(value.f32))
      [] value.k = "float64" -> AppendCell(builder, VFloat32(Float64ToFloat32(value.f64)))
      [] OTHER -> AppendNull(builder)

\* case *array.Float64Builder
appendFloat64(builder, value) ==
    CASE value.k = "float64" -> AppendCell(builder, VFloat64(value.f64))
      [] value.k = "float32" -> AppendCell(builder, VFloat64(Float32ToFloat64(value.f32)))
      [] OTHER -> AppendNull(builder)

\* A variant of appendString without the else branch: a value that is not a
\* string appends nothing.
appendStringNoElse(builder, value) ==
    IF value.k = "string" THEN AppendCell(builder, VString(value.s))
    ELSE builder

\* case *array.StringBuilder
appendString(builder, value) ==
    IF value.k = "string" THEN AppendCell(builder, VString(value.s))
    ELSE AppendNull(builder)

\* case *array.BooleanBuilder
appendBoolean(builder, value) ==
    IF value.k = "bool" THEN AppendCell(builder, VBool(value.b))
    ELSE AppendNull(builder)

\* case *array.TimestampBuilder
appendTimestamp(builder, value) ==
    CASE value.k = "time.Time" -> AppendCell(builder, VTimestamp(value.ns))
      [] value.k = "string" ->
            IF RFC3339Ok(value.s)
            THEN AppendCell(builder, VTimestamp(RFC3339Nanos(value.s)))
            ELSE AppendNull(builder)
      [] OTHER -> AppendNull(builder)

\* A variant of appendFixedSizeList that takes a list no longer than the
\* declared size.
appendFixedSizeListAtMost(builder, value) ==
    CASE value.k = "[]float32" ->
            IF Len(value.items) <= builder.n
            THEN [FixedSizeListAppend(builder, TRUE) EXCEPT
                    !.values.cells = @ \o
                        [j \in 1..Len(value.items) |-> VFloat32(value.items[j].f32)]]
            ELSE AppendNull(builder)
      [] value.k = "[]float64" ->
            IF Len(value.items) <= builder.n
            THEN [FixedSizeListAppend(builder, TRUE) EXCEPT
                    !.values.cells = @ \o
                        [j \in 1..Len(value.items) |->
                            VFloat32(Float64ToFloat32(value.items[j].f64))]]
            ELSE AppendNull(builder)
      [] OTHER -> AppendNull(builder)

\* case *array.FixedSizeListBuilder
appendFixedSizeList(builder, value) ==
    CASE value.k = "[]float32" ->
            IF Len(value.items) = builder.n
            THEN [FixedSizeListAppend(builder, TRUE) EXCEPT
                    !.values.cells = @ \o
                        [j \in 1..Len(value.items) |-> VFloat32(value.items[j].f32)]]
            ELSE AppendNull(builder)
      [] value.k = "[]float64" ->
            IF Len(value.items) = builder.n
            THEN [FixedSizeListAppend(builder, TRUE) EXCEPT
                    !.values.cells = @ \o
                        [j \in 1..Len(value.items) |->
                            VFloat32(Float64ToFloat32(value.items[j].f64))]]
            ELSE AppendNull(builder)
      [] OTHER -> AppendNull(builder)

RECURSIVE appendValue(_, _), appendItems(_, _, _)

\* for _, item := range v { appendValue(b.ValueBuilder(), item, schema) }
appendItems(valueBuilder, items, j) ==
    IF j > Len(items) THEN valueBuilder
    ELSE appendItems(appendValue(valueBuilder, items[j]), items, j + 1)

\* case *array.StructBuilder
appendStruct(builder, value) ==
    IF value.k = "map[string]interface{}"
    THEN [builder EXCEPT
            !.valid = Append(@, TRUE),
            !.fields = [j \in 1..Len(builder.fields) |->
                appendValue(builder.fields[j], Lookup(value.m, builder.names[j]))]]
    ELSE AppendNull(builder)

\* case *array.ListBuilder
appendList(builder, value) ==
    LET b == ListAppend(builder, TRUE)
    IN  IF value.k \in {"[]interface{}", "[]string", "[]float32"}
        THEN [b EXCEPT !.values = appendItems(@, value.items, 1)]
        ELSE [b EXCEPT !.values = appendValue(@, value)]

appendValue(builder, value) ==
    IF value.k = "nil" THEN AppendNull(builder)
    ELSE CASE builder.kind = "INT32" -> appendInt32(builder, value)
           [] builder.kind = "INT64" -> appendInt64(builder, value)
           [] builder.kind = "FLOAT32" -> appendFloat32(builder, value)
           [] builder.kind = "FLOAT64" -> appendFloat64(builder, value)
           [] builder.kind = "STRING" -> appendString(builder, value)
           [] builder.kind = "BOOL" -> appendBoolean(builder, value)
           [] builder.kind = "TIMESTAMP" -> appendTimestamp(builder, value)
           [] builder.kind = "STRUCT" -> appendStruct(builder, value)
           [] builder.kind = "LIST" -> appendList(builder, value)
           [] builder.kind = "FIXED_SIZE_LIST" -> appendFixedSizeList(builder, value)
           [] OTHER -> AppendNull(builder)

\* Whether the call panics: valueBuilder.(*array.Float32Builder) in the
\* fixed-size-list case fails when the element builder is of another type.
RECURSIVE appendValuePanics(_, _)
appendValuePanics(builder, value) ==
    IF value.k = "nil" THEN FALSE
    ELSE CASE builder.kind = "STRUCT" ->
            /\ value.k = "map[string]interface{}"
            /\ \E j \in 1..Len(builder.fields) :
                  appendValuePanics(builder.fields[j], Lookup(value.m, builder.names[j]))
      [] builder.kind = "LIST" ->
            IF value.k \in {"[]interface{}", "[]string", "[]float32"}
            THEN \E j \in 1..Len(value.items) :
                    appendValuePanics(builder.values, value.items[j])
            ELSE appendValuePanics(builder.values, value)
      [] builder.kind = "FIXED_SIZE_LIST" ->
            /\ value.k \in {"[]float32", "[]float64"}
            /\ Len(value.items) = builder.n
            /\ builder.values.kind # "FLOAT32"
      [] OTHER -> FALSE

---------------------------------------------------------------------------
(* The inputs drawn: mapping trees and document batches.                   *)

\* Field names.
Names == {"a", "b"}

Whole(n) == F64(FALSE, n, 0, FALSE)

\* Mapping nodes without properties.
Leaf(typeName) == Node(JString(typeName), JAbsent, JAbsent)
DenseVector(dims) == Node(JString("dense_vector"), dims, JAbsent)

ScalarLeaves ==
    {Leaf(t) : t \in {"text", "integer", "long", "float", "double", "boolean", "date"}}

Leaves ==
    ScalarLeaves
    \cup {Leaf("keyword"), Leaf("geo_point"), Leaf("nested"), Leaf("object"),
          Node(JAbsent, JAbsent, JAbsent), Node(JNumber(Whole(1)), JAbsent, JAbsent),
          Node(JString("object"), JAbsent, JString("x")),
          Node(JString("text"), JAbsent, JObject([a |-> Leaf("integer")]))}
    \cup {DenseVector(d) : d \in {JAbsent, JString("x"), JNumber(Whole(0)),
                                  JNumber(Whole(2)), JNumber(F64(FALSE, 2, 2, FALSE)),
                                  JNumber(F64(TRUE, 1, 0, FALSE))}}

InnerLeaves == {Leaf("text"), Leaf("integer"), DenseVector(JAbsent)}

\* Mapping nodes with at most d levels of nested/object fields below them.
RECURSIVE InnerNodes(_)
InnerNodes(d) ==
    IF d = 0 THEN InnerLeaves
    ELSE InnerLeaves
         \cup {Node(t, JAbsent, JObject(m)) :
                  t \in {JString("nested"), JAbsent},
                  m \in UNION {[S -> InnerNodes(d - 1)] : S \in {{"a"}, {"a", "b"}}}}

\* Mapping trees that exercise the Type Mapper and the Schema Builder.
MapperMappings ==
    {[n \in {"a"} |-> x] : x \in Leaves \cup InnerNodes(MaxDepth - 1)}
    \cup {[a |-> x, b |-> Leaf("text")] : x \in InnerNodes(MaxDepth - 1)}
    \cup {<<>>}

\* Mapping trees of one column, for the Reconciler and the Materializer.
ColumnMappings ==
    {[n \in {"a"} |-> x] :
        x \in ScalarLeaves
              \cup {DenseVector(JNumber(Whole(2))),
                    Node(JString("nested"), JAbsent,
                         JObject([a |-> Leaf("text"), b |-> Leaf("integer")]))}}

\* Mapping trees of two columns.
TableMappings ==
    {[a |-> x, b |-> Leaf("text")] :
        x \in {Leaf("text"),
               Node(JString("object"), JAbsent, JObject([a |-> Leaf("text")]))}}

\* Element j of the slice drawn for each slice type.
SliceItem(kind, j) ==
    CASE kind = "[]string" -> VString(IF j % 2 = 1 THEN "x" ELSE "y")
      [] kind = "[]float32" -> VFloat32(F32(FALSE, j, 0))
      [] kind = "[]float64" -> VFloat64(F64(FALSE, j, 1, TRUE))
      [] kind = "[]int" -> VInt(I64(1, j))
      [] kind = "[]int32" -> VInt32(j)
      [] kind = "[]int64" -> VInt64(I64(0, j))
      [] OTHER -> IF j % 2 = 1 THEN VString("x") ELSE VInt(I64(0, 7))

Slice(kind, n) == VSlice(kind, [j \in 1..n |-> SliceItem(kind, j)])

ScalarValues ==
    {VString("x"), VString("1970-01-01T00:00:01Z"),
     VInt(I64(1, 5)), VInt32(3), VInt64(I64(2, 9)),
     VFloat32(F32(FALSE, 2, 2)), VFloat64(F64(TRUE, 1, 3, TRUE)),
     VBool(TRUE), VTime(5), VOther}

SliceValues ==
    {Slice(kind, n) : kind \in ListKinds, n \in 1..MaxListLen}
    \cup {Slice("[]interface{}", 0)}

MapValues ==
    {VMap(<<>>), VMap([a |-> VString("x")]),
     VMap([a |-> Slice("[]string", MaxListLen), b |-> VInt32(3)])}

Values == {Nil} \cup ScalarValues \cup SliceValues \cup MapValues

\* Batches of at most MaxDocs documents drawn from Docs, at most one of them
\* outside Plain.
Batches(Docs, Plain) ==
    UNION {{b \in [1..n -> Docs] : Cardinality({i \in 1..n : b[i] \notin Plain}) <= 1} :
              n \in 0..MaxDocs}

ColumnDocs == {<<>>} \cup {[n \in {"a"} |-> v] : v \in Values}

\* Documents of each shape: no key, nil, scalars, lists, a map.
PlainDocs ==
    {<<>>}
    \cup {[n \in {"a"} |-> v] :
             v \in {Nil, VString("x"), VInt32(3), Slice("[]string", MaxListLen),
                    Slice("[]float64", 1), VMap([a |-> VString("x")])}}

TableValues == {Nil, VString("x"), Slice("[]string", MaxListLen),
                VMap([a |-> Slice("[]interface{}", 1)])}
TableDocs ==
    UNION {[S -> TableValues] : S \in SUBSET Names}

PlainTableDocs ==
    UNION {[S -> {Nil, VString("x")}] : S \in SUBSET Names}

Inputs ==
    (MapperMappings \X {<<>>, <<[a |-> VString("x")]>>})
    \cup (ColumnMappings \X Batches(ColumnDocs, PlainDocs))
    \cup (TableMappings \X Batches(TableDocs, PlainTableDocs))

---------------------------------------------------------------------------
(* main: parse the mapping, adjust the schema, create the record.          *)

NoAppend == [fi |-> 0]

Init ==
    /\ \E in \in Inputs : mapping = in[1] /\ data = in[2]
    /\ pc = "parse"
    /\ schema = <<>>
    /\ prevSchema = <<>>
    /\ adjusts = 0
    /\ builders = <<>>
    /\ di = 0
    /\ fi = 0
    /\ lastAppend = NoAppend

\* fields := parseProperties(...); originalSchema := arrow.NewSchema(fields, nil)
Parse ==
    /\ pc = "parse"
    /\ \E r \in parseProperties(mapping) :
          IF r.panic
          THEN pc' = "parsePanic" /\ UNCHANGED schema
          ELSE pc' = "schema" /\ schema' = r.fields
    /\ UNCHANGED <<mapping, data, prevSchema, adjusts, builders, di, fi, lastAppend>>

\* adjustedSchema := adjustSchemaForLists(schema, data)
Adjust ==
    /\ pc = "schema"
    /\ adjusts < MaxAdjust
    /\ prevSchema' = schema
    /\ schema' = adjustSchemaForLists(schema, data)
    /\ adjusts' = adjusts + 1
    /\ UNCHANGED <<mapping, data, pc, builders, di, fi, lastAppend>>

\* createArrowRecord, handed the schema as parsed or as adjusted: the
\* builders are made, one per field.
CreateBuilders ==
    /\ pc = "schema"
    /\ builders' = [i \in 1..Len(schema) |-> NewBuilder(schema[i].type)]
    /\ di' = 1
    /\ fi' = 1
    /\ pc' = "append"
    /\ UNCHANGED <<mapping, data, schema, prevSchema, adjusts, lastAppend>>

\* createArrowRecord: one iteration of the inner loop,
\* appendValue(builders[i], doc[field.Name], schema).
AppendStep ==
    /\ pc = "append"
    /\ di <= Len(data)
    /\ Len(schema) > 0
    /\ LET value == Lookup(data[di], schema[fi].name)
       IN  IF appendValuePanics(builders[fi], value)
           THEN /\ pc' = "recordPanic"
                /\ UNCHANGED <<builders, di, fi, lastAppend>>
           ELSE /\ builders' = [builders EXCEPT ![fi] = appendValue(@, value)]
                /\ lastAppend' = [fi |-> fi, value |-> value, before |-> builders[fi]]
                /\ IF fi < Len(schema)
                   THEN fi' = fi + 1 /\ di' = di
                   ELSE fi' = 1 /\ di' = di + 1
                /\ pc' = pc
    /\ UNCHANGED <<mapping, data, schema, prevSchema, adjusts>>

\* createArrowRecord: builder.NewArray() per column and array.NewRecord,
\* which panics when a column's length is not the number of documents.
Finish ==
    /\ pc = "append"
    /\ (di > Len(data) \/ Len(schema) = 0)
    /\ pc' = IF \A i \in 1..Len(builders) : BuilderLen(builders[i]) = Len(data)
             THEN "done" ELSE "recordPanic"
    /\ UNCHANGED <<mapping, data, schema, prevSchema, adjusts, builders, di, fi,
                   lastAppend>>

Next == Parse \/ Adjust \/ CreateBuilders \/ AppendStep \/ Finish

Spec == Init /\ [][Next]_vars

---------------------------------------------------------------------------
(* Vocabulary of the properties.                                           *)

NumericIds == {"INT32", "INT64", "FLOAT32", "FLOAT64"}
NumericKinds == {"int", "int32", "int64", "float32", "float64"}
ScalarKinds == NumericKinds \cup {"string", "bool", "time.Time"}
FloatSliceKinds == {"[]float32", "[]float64"}

\* The value's shape does not match the descriptor.  A list descriptor has no
\* mismatched shape: a list is iterated, any other value is wrapped.
ShapeMismatch(type, value) ==
    CASE type.id \in NumericIds -> value.k \notin NumericKinds
      [] type.id = "STRING" -> value.k # "string"
      [] type.id = "BOOL" -> value.k # "bool"
      [] type.id = "TIMESTAMP" ->
            ~(value.k = "time.Time" \/ (value.k = "string" /\ RFC3339Ok(value.s)))
      [] type.id = "STRUCT" -> value.k # "map[string]interface{}"
      [] type.id = "FIXED_SIZE_LIST" ->
            ~(value.k \in FloatSliceKinds /\ Len(value.items) = type.n)
      [] OTHER -> FALSE

\* Row r of the column is a null cell.
RowIsNull(b, r) == IF b.kind \in ScalarIds THEN b.cells[r].k = "nil" ELSE ~b.valid[r]

\* The first document of the batch that holds the field (0: none does).
FirstDocWith(name) ==
    IF \E d \in 1..Len(data) : name \in DOMAIN data[d]
    THEN CHOOSE d \in 1..Len(data) :
            /\ name \in DOMAIN data[d]
            /\ \A e \in 1..(d - 1) : name \notin DOMAIN data[e]
    ELSE 0

---------------------------------------------------------------------------
(* C1: createArrowRecord never aborts; while the batch is appended the     *)
(* columns stay aligned (a column already visited for the current document *)
(* holds one row per document so far, the others one fewer), at the end    *)
(* every column holds exactly one row per document, and the cell of a      *)
(* document whose value for the field is absent, nil or of a mismatched    *)
(* shape is null.                                                          *)
C1_RowAlignment ==
    /\ pc # "recordPanic"
    /\ pc \in {"append", "done"} =>
          \A i \in 1..Len(builders) :
             BuilderLen(builders[i]) = IF i < fi THEN di ELSE di - 1
    /\ pc = "done" =>
          \A i \in 1..Len(builders) :
             /\ BuilderLen(builders[i]) = Len(data)
             /\ \A d \in 1..Len(data) :
                   LET value == Lookup(data[d], schema[i].name)
                   IN  (value.k = "nil" \/ ShapeMismatch(schema[i].type, value))
                          => RowIsNull(builders[i], d)

\* A finished record of two columns and two documents, with a field absent
\* from a document and a value of a mismatched shape.
C1_Witness ==
    /\ pc = "done"
    /\ Len(builders) = 2
    /\ Len(data) = 2
    /\ \E i \in 1..2, d \in 1..2 : schema[i].name \notin DOMAIN data[d]
    /\ \E i \in 1..2, d \in 1..2 :
          /\ schema[i].name \in DOMAIN data[d]
          /\ data[d][schema[i].name].k # "nil"
          /\ ShapeMismatch(schema[i].type, data[d][schema[i].name])

---------------------------------------------------------------------------
(* C2: reconciliation is idempotent: a second adjustSchemaForLists call    *)
(* over the same documents returns the schema it was given.                *)
C2_Idempotent == adjusts >= 2 => schema = prevSchema

---------------------------------------------------------------------------
(* C3: after adjustSchemaForLists, a field (top-level, or inside a struct  *)
(* that was descended into) whose descriptor was a scalar type T and whose *)
(* deciding value is list-shaped is List(T) with the same name and         *)
(* nullable; with a scalar deciding value it is unchanged.                 *)
RECURSIVE ListWidened(_, _, _)
ListWidened(base, value, adj) ==
    /\ (base.type.id \in ScalarIds /\ value.k \in ListKinds) =>
          adj = Field(base.name, ListOf(base.type), TRUE)
    /\ (base.type.id \in ScalarIds /\ value.k \in ScalarKinds) => adj = base
    /\ (base.type.id = "STRUCT" /\ value.k = "map[string]interface{}") =>
          /\ adj.type.id = "STRUCT"
          /\ Len(adj.type.fields) = Len(base.type.fields)
          /\ \A j \in 1..Len(base.type.fields) :
                ListWidened(base.type.fields[j],
                            Lookup(value.m, base.type.fields[j].name),
                            adj.type.fields[j])

C3_ScalarToList ==
    adjusts >= 1 =>
       /\ Len(schema) = Len(prevSchema)
       /\ \A i \in 1..Len(prevSchema) :
             LET d == FirstDocWith(prevSchema[i].name)
             IN  d # 0 => ListWidened(prevSchema[i], data[d][prevSchema[i].name], schema[i])

\* An Int32 field decided by a []string value, and a Boolean field decided by
\* a list: the element type is the descriptor's, not the value's.
C3_Witness ==
    /\ adjusts = 1
    /\ Len(schema) = 1
    /\ prevSchema[1].type \in {Int32, Boolean}
    /\ FirstDocWith("a") = 1
    /\ data[1]["a"].k = "[]string"
    /\ schema[1] = Field("a", ListOf(prevSchema[1].type), TRUE)

---------------------------------------------------------------------------
(* C4: first match wins: a top-level field's adjusted descriptor is what   *)
(* adjusting the descriptor against the first document that holds the      *)
(* field, alone, gives, whatever the later documents hold; a field no      *)
(* document holds is unchanged.                                            *)
C4_FirstMatchWins ==
    adjusts >= 1 =>
       /\ Len(schema) = Len(prevSchema)
       /\ \A i \in 1..Len(prevSchema) :
             LET d == FirstDocWith(prevSchema[i].name)
             IN  schema[i] =
                    IF d = 0 THEN prevSchema[i]
                    ELSE adjustSchemaForLists(
                            <<prevSchema[i]>>,
                            <<[n \in {prevSchema[i].name} |->
                                  data[d][prevSchema[i].name]]>>)[1]

\* The first document holds a nil or a scalar for the field, a later one a
\* list: the field is left as it was.
C4_Witness ==
    /\ adjusts = 1
    /\ Len(data) = 2
    /\ Len(schema) = 1
    /\ "a" \in DOMAIN data[1] /\ data[1]["a"].k = "nil"
    /\ "a" \in DOMAIN data[2] /\ data[2]["a"].k \in ListKinds
    /\ schema[1] = prevSchema[1]

---------------------------------------------------------------------------
(* The last top-level appendValue call: whether one was made to a builder  *)
(* of one of the kinds, the builder it left, and the row it appended.      *)

LastAppendTo(kinds) == lastAppend.fi # 0 /\ lastAppend.before.kind \in kinds
LastBuilder == builders[lastAppend.fi]
LastRow == BuilderLen(LastBuilder)

---------------------------------------------------------------------------
(* C5: appending a non-nil value to a list builder appends a present row;  *)
(* for a value of any list shape adjustField recognises the row holds one  *)
(* element per source element, each the append of that element to the      *)
(* element builder; for any other value it holds one element, the append   *)
(* of the value.                                                           *)
C5_ListAppend ==
    (LastAppendTo({"LIST"}) /\ lastAppend.value.k # "nil") =>
       LET before == lastAppend.before
           b == LastBuilder
           v == lastAppend.value
           rowLen == BuilderLen(b.values) - b.offsets[LastRow]
       IN  /\ b.valid = Append(before.valid, TRUE)
           /\ b.offsets = Append(before.offsets, BuilderLen(before.values))
           /\ v.k \in ListKinds =>
                 /\ rowLen = Len(v.items)
                 /\ b.values = appendItems(before.values, v.items, 1)
           /\ v.k \notin ListKinds =>
                 /\ rowLen = 1
                 /\ b.values = appendValue(before.values, v)

---------------------------------------------------------------------------
(* C6: every struct builder, at any depth, holds as many rows in each      *)
(* child builder as it holds itself; appending a mapping to a struct       *)
(* builder appends a present row and one row to every child (null for a    *)
(* child whose name the mapping lacks); any other value, nil included,     *)
(* appends a null row.                                                     *)
RECURSIVE StructsAligned(_)
StructsAligned(b) ==
    CASE b.kind = "STRUCT" ->
            \A j \in 1..Len(b.fields) :
               /\ BuilderLen(b.fields[j]) = Len(b.valid)
               /\ StructsAligned(b.fields[j])
      [] b.kind \in {"LIST", "FIXED_SIZE_LIST"} -> StructsAligned(b.values)
      [] OTHER -> TRUE

C6_StructAppend ==
    /\ \A i \in 1..Len(builders) : StructsAligned(builders[i])
    /\ LastAppendTo({"STRUCT"}) =>
          LET before == lastAppend.before
              b == LastBuilder
              v == lastAppend.value
          IN  IF v.k = "map[string]interface{}"
              THEN /\ b.valid = Append(before.valid, TRUE)
                   /\ \A j \in 1..Len(b.fields) :
                         /\ BuilderLen(b.fields[j]) = BuilderLen(before.fields[j]) + 1
                         /\ b.names[j] \notin DOMAIN v.m => RowIsNull(b.fields[j], LastRow)
              ELSE b.valid = Append(before.valid, FALSE)

\* A struct column of two children: a mapping without "b" was appended, then
\* a bare string.
C6_Witness ==
    /\ pc = "done"
    /\ LastAppendTo({"STRUCT"})
    /\ lastAppend.value.k = "string"
    /\ LastBuilder.valid = <<TRUE, FALSE>>
    /\ Len(LastBuilder.fields) = 2
    /\ "a" \in DOMAIN data[1]
    /\ data[1]["a"].k = "map[string]interface{}"
    /\ DOMAIN data[1]["a"].m = {"a"}

---------------------------------------------------------------------------
(* C7: appending to a fixed-size-list builder of size n: a []float32 or    *)
(* []float64 of length n appends a present row and its n elements, in      *)
(* order, as Float32 values; any other value appends a null row and leaves *)
(* the element builder as it was.                                          *)
C7_FixedSizeListAppend ==
    LastAppendTo({"FIXED_SIZE_LIST"}) =>
       LET before == lastAppend.before
           b == LastBuilder
           v == lastAppend.value
           asFloat32(item) == IF item.k = "float32" THEN item.f32
                              ELSE Float64ToFloat32(item.f64)
       IN  IF v.k \in FloatSliceKinds /\ Len(v.items) = before.n
           THEN /\ b.valid = Append(before.valid, TRUE)
                /\ b.values.cells =
                      before.values.cells \o
                         [j \in 1..Len(v.items) |-> VFloat32(asFloat32(v.items[j]))]
           ELSE /\ b.valid = Append(before.valid, FALSE)
                /\ b.values = before.values

\* A vector of the declared size was appended, then a shorter one.
C7_Witness ==
    /\ LastAppendTo({"FIXED_SIZE_LIST"})
    /\ LastBuilder.valid = <<TRUE, FALSE>>
    /\ lastAppend.value.k = "[]float64"
    /\ Len(lastAppend.value.items) = 1
    /\ Len(LastBuilder.values.cells) = LastBuilder.n

---------------------------------------------------------------------------
(* C8 as claimed: a numeric value of the accumulator's width or narrower   *)
(* appends a non-null cell; a value that is not numeric appends null.      *)
KindWidth(k) == IF k \in {"int32", "float32"} THEN 32 ELSE 64
IdWidth(id) == IF id \in {"INT32", "FLOAT32"} THEN 32 ELSE 64

AcceptedKinds(id) ==
    CASE id = "INT32" -> {"int32", "int", "float64"}
      [] id = "INT64" -> {"int64", "int", "float64"}
      [] id = "FLOAT32" -> {"float32", "float64"}
      [] id = "FLOAT64" -> {"float64", "float32"}

ConvertedCell(id, v) ==
    CASE id = "INT32" ->
            VInt32(CASE v.k = "int32" -> v.n32
                     [] v.k = "int" -> Int64ToInt32(v.n64)
                     [] v.k = "float64" -> Float64ToInt32(v.f64))
      [] id = "INT64" ->
            VInt64(CASE v.k \in {"int64", "int"} -> v.n64
                     [] v.k = "float64" -> Float64ToInt64(v.f64))
      [] id = "FLOAT32" ->
            VFloat32(CASE v.k = "float32" -> v.f32
                       [] v.k = "float64" -> Float64ToFloat32(v.f64))
      [] id = "FLOAT64" ->
            VFloat64(CASE v.k = "float64" -> v.f64
                       [] v.k = "float32" -> Float32ToFloat64(v.f32))

---------------------------------------------------------------------------
(* C9: esTypeToArrowType never panics and maps every type name as the      *)
(* table says: dense_vector to a fixed-size list of Float32 of size dims,  *)
(* or of size 0 when dims is absent or not a number; nested and object to  *)
(* a struct with one field per property; an unknown name to String.        *)
C9_MapperTotal ==
    /\ pc # "parsePanic"
    /\ \A n \in DOMAIN mapping :
          mapping[n].type.j = "string" =>
             \A r \in esTypeToArrowType(mapping[n].type.s, mapping[n]) :
                LET esType == mapping[n].type.s
                    dims == mapping[n].dims
                    properties == mapping[n].properties
                IN  /\ ~r.panic
                    /\ CASE esType \in {"text", "keyword"} -> r.type = String
                         [] esType = "integer" -> r.type = Int32
                         [] esType = "long" -> r.type = Int64
                         [] esType = "float" -> r.type = Float32
                         [] esType = "double" -> r.type = Float64
                         [] esType = "boolean" -> r.type = Boolean
                         [] esType = "date" -> r.type = Timestamp_ns
                         [] esType = "dense_vector" ->
                               r.type = [id |-> "FIXED_SIZE_LIST",
                                         n |-> IF dims.j = "number"
                                               THEN Float64ToInt32(dims.f64) ELSE 0,
                                         elem |-> Float32]
                         [] esType \in {"nested", "object"} ->
                               /\ r.type.id = "STRUCT"
                               /\ Len(r.type.fields) =
                                     IF properties.j = "object"
                                     THEN Cardinality(DOMAIN properties.m) ELSE 0
                         [] OTHER -> r.type = String

---------------------------------------------------------------------------
(* C10: parseProperties returns one non-nullable field per entry of the    *)
(* properties map, named after it; an entry whose type is absent or not a  *)
(* string is read as object; and the structs nest as the mapping tree      *)
(* does, field for field.                                                  *)
RECURSIVE FieldsMatch(_, _)
FieldsMatch(properties, fields) ==
    /\ Len(fields) = Cardinality(DOMAIN properties)
    /\ {fields[i].name : i \in 1..Len(fields)} = DOMAIN properties
    /\ \A i \in 1..Len(fields) :
          LET node == properties[fields[i].name]
              readAs == IF node.type.j = "string" THEN node.type.s ELSE "object"
          IN  /\ ~fields[i].nullable
              /\ IF readAs \in {"nested", "object"}
                 THEN /\ fields[i].type.id = "STRUCT"
                      /\ IF node.properties.j = "object"
                         THEN FieldsMatch(node.properties.m, fields[i].type.fields)
                         ELSE fields[i].type.fields = <<>>
                 ELSE fields[i].type.id # "STRUCT"

C10_SchemaBuilder ==
    /\ pc # "parsePanic"
    /\ (pc = "schema" /\ adjusts = 0) => FieldsMatch(mapping, schema)

---------------------------------------------------------------------------
(* C11: one call of adjustSchemaForLists only widens and keeps the         *)
(* skeleton: the adjusted schema has the fields of the input schema, by    *)
(* name and in order, at the top level and inside every struct; each       *)
(* field's type is its original type, a list of its original type, or a    *)
(* struct of its adjusted children; and no field goes from nullable to     *)
(* not nullable.  prevSchema is the input of the call, schema its result.  *)
RECURSIVE Widened(_, _)
Widened(orig, adj) ==
    /\ adj.name = orig.name
    /\ orig.nullable => adj.nullable
    /\ \/ adj.type = orig.type
       \/ adj.type = ListOf(orig.type)
       \/ /\ orig.type.id = "STRUCT"
          /\ adj.type.id = "STRUCT"
          /\ Len(adj.type.fields) = Len(orig.type.fields)
          /\ \A j \in 1..Len(orig.type.fields) :
                Widened(orig.type.fields[j], adj.type.fields[j])

C11_OnlyWidens ==
    adjusts >= 1 =>
       /\ Len(schema) = Len(prevSchema)
       /\ \A i \in 1..Len(prevSchema) : Widened(prevSchema[i], schema[i])

\* The second call on a struct column whose first child is already a
\* nullable list and whose document holds a list for it and a scalar for the
\* second child: the first child becomes a list of that list and stays
\* nullable, the second child is untouched.
C11_Witness ==
    /\ adjusts = 2
    /\ Len(prevSchema) = 1
    /\ prevSchema[1].type.id = "STRUCT"
    /\ Len(prevSchema[1].type.fields) = 2
    /\ prevSchema[1].type.fields[1] = Field("a", ListOf(String), TRUE)
    /\ schema[1].type.id = "STRUCT"
    /\ schema[1].type.fields[1] = Field("a", ListOf(ListOf(String)), TRUE)
    /\ schema[1].type.fields[2] = Field("b", Int32, FALSE)

=============================================================================
